---- MODULE Spec2Model ----
(***************************************************************************)
(* Model of aws_cluster_connect: the profile registry helpers of           *)
(* aws_config.py, the credential broker of credentials.py and the run of   *)
(* main.py.                                                                *)
(*                                                                         *)
(* Strings are sequences of tokens (one-token strings for words, the       *)
(* token "profile " for the section marker, "-" for the separator of the   *)
(* environment argument, one-character tokens "0".."9" for the digits of   *)
(* a stored timestamp).  A ConfigParser is a function from section names   *)
(* to functions from option names to strings; DOMAIN gives the sections    *)
(* and options that exist.  Every time.time() / datetime.now() call is a   *)
(* separate reading of the wall clock, which may have advanced since the   *)
(* previous reading.                                                       *)
(*                                                                         *)
(* Three specifications share the state: Spec runs main.py from process    *)
(* start to exit, several times over one ~/.aws/config; SpecResolver calls *)
(* the functions of aws_config.py and credentials_are_valid in any order   *)
(* on one ConfigParser; SpecBroker calls get_temporary_credentials in any  *)
(* order within one process.                                               *)
(***************************************************************************)
EXTENDS Integers, Sequences, FiniteSets, TLC

\* ------------------------------------------------------------------ bounds
\* seconds the clock may advance between two consecutive readings of it
MaxTick == 1
\* half-width of the clock neighbourhoods explored around each window edge
Width == 1
\* process invocations per behaviour
MaxRuns == 2
\* bundles the exchange service issues to a process whose functions are
\* driven directly
MaxIssued == 2

\* --------------------------------------------------------------- settings
ROLE_MAX_DURATION == 3600
USER_MAX_DURATION == 129600

\* the clock value at which the explored behaviours start
T0 == 1000

Min(a, b) == IF a <= b THEN a ELSE b

\* ---------------------------------------------------------------- strings
Digits == <<"0", "1", "2", "3", "4", "5", "6", "7", "8", "9">>

RECURSIVE IntToStr(_)
\* str(n) for n >= 0: the decimal digits, most significant first
IntToStr(n) ==
    IF n < 10 THEN <<Digits[n + 1]>>
    ELSE IntToStr(n \div 10) \o <<Digits[(n % 10) + 1]>>

DigitVal(c) == CHOOSE d \in 0..9 : Digits[d + 1] = c

RECURSIVE StrToInt(_)
\* int(s) for a string of decimal digits
StrToInt(s) ==
    IF Len(s) = 1 THEN DigitVal(s[1])
    ELSE 10 * StrToInt(SubSeq(s, 1, Len(s) - 1)) + DigitVal(s[Len(s)])

\* str.lower() and str.upper(), token by token
LowerTok(t) ==
    CASE t \in {"dev", "Dev", "DEV"} -> "dev"
      [] t \in {"base", "BASE"} -> "base"
      [] OTHER -> t

UpperTok(t) ==
    CASE t \in {"dev", "Dev", "DEV"} -> "DEV"
      [] t \in {"base", "BASE"} -> "BASE"
      [] OTHER -> t

Lower(s) == [i \in 1..Len(s) |-> LowerTok(s[i])]
\* Upper as it would be if the name were passed on as written
Upper_as_written(s) == s

Upper(s) == [i \in 1..Len(s) |-> UpperTok(s[i])]

RECURSIVE SplitFirst(_)
\* environment.split('-')[0]: the tokens before the first "-"
SplitFirst(s) ==
    IF s = <<>> \/ s[1] = "-" THEN <<>>
    ELSE <<s[1]>> \o SplitFirst(Tail(s))

\* ----------------------------------------------------------- ConfigParser
has_section(cfg, key) == key \in DOMAIN cfg

has_option(cfg, key, opt) == key \in DOMAIN cfg /\ opt \in DOMAIN cfg[key]

\* config.add_section(key): a new section without options
add_section(cfg, key) == (key :> <<>>) @@ cfg

\* config.set(key, opt, val)
set_option(cfg, key, opt, val) ==
    [cfg EXCEPT ![key] = (opt :> val) @@ cfg[key]]

\* f'profile {profile}' if not profile.startswith('profile ') else profile
ProfileKey(profile) ==
    IF ~(Len(profile) >= 1 /\ profile[1] = "profile ")
    THEN <<"profile ">> \o profile
    ELSE profile

\* ---------------------------------------------------------- aws_config.py
\* t is the reading of time.time() taken inside the call
create_or_update_profile(cfg, profile_key, t) ==
    LET c1 == IF ~has_section(cfg, profile_key)
              THEN add_section(cfg, profile_key) ELSE cfg
    IN set_option(c1, profile_key, "profile_timestamp", IntToStr(t))

\* t1 is the clock reading of create_or_update_profile, t2 the reading of
\* the return statement of the except branch.  The result carries the
\* ConfigParser after the call, the returned integer and the branch taken.
read_profile_timestamp(cfg, profile, t1, t2) ==
    LET profile_key == ProfileKey(profile) IN
    IF ~has_section(cfg, profile_key)
    THEN LET c1 == create_or_update_profile(cfg, profile_key, t1)
         IN [config |-> c1,
             ret |-> StrToInt(c1[profile_key]["profile_timestamp"]),
             path |-> "created_section"]
    ELSE IF has_option(cfg, profile_key, "profile_timestamp")
    THEN [config |-> cfg,
          ret |-> StrToInt(cfg[profile_key]["profile_timestamp"]),
          path |-> "read"]
    ELSE [config |-> create_or_update_profile(cfg, profile_key, t1),
          ret |-> t2,
          path |-> "no_option"]

\* read_aws_config as it would be if a missing cluster_name fell back to a
\* default like the other two fields
read_aws_config_fallback(cfg, base_profile) ==
    LET profile_key == ProfileKey(base_profile) IN
    IF has_section(cfg, profile_key)
    THEN [cluster_name |-> IF has_option(cfg, profile_key, "cluster_name")
                           THEN cfg[profile_key]["cluster_name"]
                           ELSE <<>>,
          region |-> IF has_option(cfg, profile_key, "region")
                     THEN cfg[profile_key]["region"]
                     ELSE <<"ap-northeast-1">>,
          mfa_serial |-> IF has_option(cfg, profile_key, "mfa_serial")
                         THEN cfg[profile_key]["mfa_serial"]
                         ELSE <<>>]
    ELSE <<>>

\* The dictionary returned, or <<>> for None
read_aws_config(cfg, base_profile) ==
    LET profile_key == ProfileKey(base_profile) IN
    IF has_option(cfg, profile_key, "cluster_name")
    THEN [cluster_name |-> cfg[profile_key]["cluster_name"],
          region |-> IF has_option(cfg, profile_key, "region")
                     THEN cfg[profile_key]["region"]
                     ELSE <<"ap-northeast-1">>,
          mfa_serial |-> IF has_option(cfg, profile_key, "mfa_serial")
                         THEN cfg[profile_key]["mfa_serial"]
                         ELSE <<>>]
    ELSE <<>>

\* is_role_profile as it would be if it looked for source_profile
is_role_profile_by_source(cfg, profile) ==
    LET profile_key == ProfileKey(profile) IN
    has_section(cfg, profile_key)
    /\ has_option(cfg, profile_key, "source_profile")

is_role_profile(cfg, profile) ==
    LET profile_key == ProfileKey(profile) IN
    has_section(cfg, profile_key) /\ has_option(cfg, profile_key, "role_arn")

\* --------------------------------------------------------- credentials.py
\* credentials_are_valid as it would be with `elapsed <= max_valid_duration`
credentials_are_valid_inclusive(cfg, profile, is_role_based, t1, t2, t3) ==
    LET max_valid_duration ==
            IF is_role_based THEN ROLE_MAX_DURATION ELSE USER_MAX_DURATION
        r == read_profile_timestamp(cfg, profile, t1, t2)
        profile_timestamp == r.ret
        current_time == t3
        elapsed == current_time - profile_timestamp
    IN [config |-> r.config,
        ret |-> elapsed <= max_valid_duration,
        elapsed |-> elapsed,
        profile_timestamp |-> profile_timestamp,
        current_time |-> current_time,
        path |-> r.path]

\* credentials_are_valid as it would be with `elapsed != max_valid_duration`
credentials_are_valid_unequal(cfg, profile, is_role_based, t1, t2, t3) ==
    LET max_valid_duration ==
            IF is_role_based THEN ROLE_MAX_DURATION ELSE USER_MAX_DURATION
        r == read_profile_timestamp(cfg, profile, t1, t2)
        profile_timestamp == r.ret
        current_time == t3
        elapsed == current_time - profile_timestamp
    IN [config |-> r.config,
        ret |-> elapsed # max_valid_duration,
        elapsed |-> elapsed,
        profile_timestamp |-> profile_timestamp,
        current_time |-> current_time,
        path |-> r.path]

\* t1, t2 are the readings inside read_profile_timestamp, t3 the reading of
\* current_time
credentials_are_valid(cfg, profile, is_role_based, t1, t2, t3) ==
    LET max_valid_duration ==
            IF is_role_based THEN ROLE_MAX_DURATION ELSE USER_MAX_DURATION
        r == read_profile_timestamp(cfg, profile, t1, t2)
        profile_timestamp == r.ret
        current_time == t3
        elapsed == current_time - profile_timestamp
    IN [config |-> r.config,
        ret |-> elapsed < max_valid_duration,
        elapsed |-> elapsed,
        profile_timestamp |-> profile_timestamp,
        current_time |-> current_time,
        path |-> r.path]

\* A frozen STS response: the key id stands for the three secret strings
Bundle(key_id, expiration) ==
    [AccessKeyId |-> key_id, Expiration |-> expiration]

\* {} and None are the empty function; `if not x` is Falsy(x)
Falsy(d) == DOMAIN d = {}

\* cache_hit as it would be with `now <= expiration`
cache_hit_inclusive(cache, profile, now) ==
    profile \in DOMAIN cache /\ now <= cache[profile][2]

\* profile in credentials_cache and now < credentials_cache[profile][1]
cache_hit(cache, profile, now) ==
    profile \in DOMAIN cache /\ now < cache[profile][2]

\* cache_store as it would be if the assignment rebound the whole cache
cache_store_rebinding(cache, profile, new_credentials) ==
    profile :> <<new_credentials, new_credentials.Expiration>>

\* credentials_cache[profile] = (new_credentials, new_credentials['Expiration'])
cache_store(cache, profile, new_credentials) ==
    (profile :> <<new_credentials, new_credentials.Expiration>>) @@ cache

\* role_duration_of as it would be without the limit
role_duration_unlimited(duration) == duration

\* role_duration = min(duration, ROLE_MAX_DURATION)
role_duration_of(duration) == Min(duration, ROLE_MAX_DURATION)

\* now is the reading of datetime.now(); lookup is the answer of the base
\* credential provider ("ok", "ProfileNotFound", or "NoCredentials" when
\* get_credentials() yields None); sts is the answer of the exchange service
\* ("ok" or "ClientError"); key_id is the identity of the bundle the service
\* would return, which expires DurationSeconds after the request.
\* The result carries the cache after the call, the external calls made in
\* order, the returned value, the exception raised ("" when it returned) and
\* the branch taken.
get_temporary_credentials(cfg, cache, profile, mfa_serial, mfa_token, duration, now, lookup, sts, key_id) ==
    LET profile_key == ProfileKey(profile)
        is_role_based == has_section(cfg, profile_key)
                         /\ has_option(cfg, profile_key, "role_arn")
    IN
    IF cache_hit(cache, profile, now)
    THEN [cache |-> cache, calls |-> <<>>, ret |-> cache[profile][1],
          raised |-> "", path |-> "cached"]
    ELSE IF is_role_based
    THEN IF ~has_option(cfg, profile_key, "source_profile")
         THEN [cache |-> cache, calls |-> <<>>, ret |-> <<>>,
               raised |-> "NoOptionError", path |-> "role"]
         ELSE
         LET role_arn == cfg[profile_key]["role_arn"]
             source_profile == cfg[profile_key]["source_profile"]
             role_duration == role_duration_of(duration)
             session == [op |-> "boto3.Session", profile |-> source_profile]
             request == [op |-> "assume_role",
                         RoleArn |-> role_arn,
                         RoleSessionName |-> profile \o <<"-session">>,
                         DurationSeconds |-> role_duration,
                         SerialNumber |-> mfa_serial,
                         TokenCode |-> mfa_token]
             new_credentials == Bundle(key_id, now + role_duration)
         IN
         IF lookup = "ProfileNotFound"
         THEN [cache |-> cache, calls |-> <<session>>, ret |-> <<>>,
               raised |-> "ProfileNotFound", path |-> "role"]
         ELSE IF lookup = "NoCredentials"
         THEN [cache |-> cache, calls |-> <<session>>, ret |-> <<>>,
               raised |-> "AttributeError", path |-> "role"]
         ELSE IF sts = "ClientError"
         THEN [cache |-> cache, calls |-> <<session, request>>, ret |-> <<>>,
               raised |-> "ClientError", path |-> "role"]
         ELSE [cache |-> cache_store(cache, profile, new_credentials),
               calls |-> <<session, request>>, ret |-> new_credentials,
               raised |-> "", path |-> "role"]
    ELSE
         LET session == [op |-> "boto3.Session", profile |-> profile]
             request == [op |-> "get_session_token",
                         DurationSeconds |-> duration,
                         SerialNumber |-> mfa_serial,
                         TokenCode |-> mfa_token]
             new_credentials == Bundle(key_id, now + duration)
         IN
         IF lookup = "ProfileNotFound"
         THEN [cache |-> cache, calls |-> <<session>>, ret |-> <<>>,
               raised |-> "", path |-> "user"]
         ELSE IF lookup = "NoCredentials"
         THEN [cache |-> cache, calls |-> <<session>>, ret |-> <<>>,
               raised |-> "AttributeError", path |-> "user"]
         ELSE IF sts = "ClientError"
         THEN [cache |-> cache, calls |-> <<session, request>>, ret |-> <<>>,
               raised |-> "ClientError", path |-> "user"]
         ELSE [cache |-> cache_store(cache, profile, new_credentials),
               calls |-> <<session, request>>, ret |-> new_credentials,
               raised |-> "", path |-> "user"]

\* ------------------------------------------------------------------ state
VARIABLES
    disk,               \* ~/.aws/config on disk
    credentials_file,   \* ~/.aws/credentials on disk: profile -> key id
    config,             \* the ConfigParser of the running process
    credentials_cache,  \* profile -> <<bundle, expiration>>
    clock,              \* the wall clock, in seconds
    pc,                 \* position of main, or "api" when the functions
                        \* are driven directly
    runs,               \* process invocations so far
    frame,              \* the local variables of main
    calls,              \* external calls made by the current process
    last,               \* the most recent function call and its result
    prev,               \* the call before it
    issued              \* bundles issued by the exchange service so far

vars == <<disk, credentials_file, config, credentials_cache, clock, pc,
          runs, frame, calls, last, prev, issued>>

\* ------------------------------------------------------- explored inputs
OptionValue(opt) ==
    CASE opt = "cluster_name" -> <<"c1">>
      [] opt = "role_arn" -> <<"arn:aws:iam::123:role/X">>
      [] opt = "source_profile" -> <<"base">>
      [] opt = "mfa_serial" -> <<"arn:aws:iam::123:mfa/u">>
      [] opt = "region" -> <<"eu-west-1">>
      [] opt = "profile_timestamp" -> IntToStr(T0)

Section(opts) == [o \in opts |-> OptionValue(o)]

\* the base profile's section: absent, or any choice of the three fields
BaseChoices ==
    {<<>>} \cup
    {ProfileKey(<<"dev">>) :> Section(opts \cup {"mfa_serial"}) :
        opts \in SUBSET {"cluster_name", "role_arn", "source_profile"}}

\* the derived profile's section: absent, without timestamp, with timestamp
MfaChoices ==
    {<<>>,
     ProfileKey(<<"dev", "2auth">>) :> Section({"region"}),
     ProfileKey(<<"dev", "2auth">>) :> Section({"region", "profile_timestamp"})}

InitDisks == {b @@ m : b \in BaseChoices, m \in MfaChoices}

Environments == {<<"dev">>, <<"Dev", "-", "east">>}

Windows == {ROLE_MAX_DURATION, USER_MAX_DURATION}

ClockPoints ==
    (T0..(T0 + Width)) \cup
    {T0 + w + d : w \in Windows, d \in (0 - Width)..Width}

\* the values a reading of the clock may give when the previous one gave c
Reads(c) == {t \in ClockPoints : c <= t /\ t <= c + MaxTick}

NoFrame ==
    [environment |-> <<>>, force_refresh |-> FALSE, user_profile |-> <<>>,
     mfa_profile |-> <<>>, aws_config_data |-> <<>>, role_based |-> FALSE,
     mfa_service_name |-> <<>>, mfa_token |-> <<>>, temp_creds |-> <<>>,
     exit |-> ""]

NoCall == [op |-> "none"]

InitMain ==
    /\ disk \in InitDisks
    /\ credentials_file = <<>>
    /\ config = <<>>
    /\ credentials_cache = <<>>
    /\ clock = T0
    /\ pc = "idle"
    /\ runs = 0
    /\ frame = NoFrame
    /\ calls = <<>>
    /\ last = NoCall
    /\ prev = NoCall
    /\ issued = 0

\* the wall clock moves on between two runs of main, and between two calls
\* when the functions are driven directly
ClockAdvance ==
    /\ pc \in {"idle", "done", "crashed", "resolver", "broker"}
    /\ \E t \in ClockPoints : t > clock /\ clock' = t
    /\ UNCHANGED <<disk, credentials_file, config, credentials_cache, pc,
                   runs, frame, calls, last, prev, issued>>

\* ---------------------------------------------------------------- main.py
\* MainLoad as it would be if credentials_cache outlived the process
MainLoad_cache_kept ==
    /\ pc \in {"idle", "done", "crashed"}
    /\ runs < MaxRuns
    /\ \E environment \in Environments, force_refresh \in BOOLEAN :
         LET env_name == Lower(SplitFirst(environment))
             user_profile == env_name
             mfa_profile == user_profile \o <<"2auth">>
         IN frame' = [NoFrame EXCEPT !.environment = environment,
                                     !.force_refresh = force_refresh,
                                     !.user_profile = user_profile,
                                     !.mfa_profile = mfa_profile]
    /\ config' = disk
    /\ credentials_cache' = credentials_cache
    /\ calls' = <<>>
    /\ last' = NoCall
    /\ prev' = NoCall
    /\ runs' = runs + 1
    /\ pc' = "resolve"
    /\ UNCHANGED <<disk, credentials_file, clock, issued>>

\* parse_args, load ~/.aws/config, derive the profile names
MainLoad ==
    /\ pc \in {"idle", "done", "crashed"}
    /\ runs < MaxRuns
    /\ \E environment \in Environments, force_refresh \in BOOLEAN :
         LET env_name == Lower(SplitFirst(environment))
             user_profile == env_name
             mfa_profile == user_profile \o <<"2auth">>
         IN frame' = [NoFrame EXCEPT !.environment = environment,
                                     !.force_refresh = force_refresh,
                                     !.user_profile = user_profile,
                                     !.mfa_profile = mfa_profile]
    /\ config' = disk
    /\ credentials_cache' = <<>>
    /\ calls' = <<>>
    /\ last' = NoCall
    /\ prev' = NoCall
    /\ runs' = runs + 1
    /\ pc' = "resolve"
    /\ UNCHANGED <<disk, credentials_file, clock, issued>>

\* 1) read_aws_config, 2) is_role_profile
MainResolve ==
    /\ pc = "resolve"
    /\ LET aws_config_data == read_aws_config(config, frame.user_profile)
       IN IF Falsy(aws_config_data)
          THEN /\ frame' = [frame EXCEPT !.exit = "config_not_found"]
               /\ pc' = "done"
          ELSE /\ frame' = [frame EXCEPT
                              !.aws_config_data = aws_config_data,
                              !.role_based =
                                  is_role_profile(config, frame.user_profile)]
               /\ pc' = "check"
    /\ UNCHANGED <<disk, credentials_file, config, credentials_cache, clock,
                   runs, calls, last, prev, issued>>

\* kube.connect_to_cluster: one `aws eks update-kubeconfig` call
connect_to_cluster(cluster_name, region, profile) ==
    [op |-> "update-kubeconfig", name |-> cluster_name, region |-> region,
     profile |-> profile]

\* refresh_not_forced as it would be if the flag were not consulted
refresh_not_forced_ignored(force_refresh) == TRUE

\* the left operand of `not force_refresh and credentials_are_valid(...)`;
\* the right operand is evaluated only when it is true
refresh_not_forced(force_refresh) == ~force_refresh

\* MainCheck as it would be without the `return` after the connect of the
\* existing-credentials branch
MainCheck_no_return ==
    /\ pc = "check"
    /\ IF ~refresh_not_forced(frame.force_refresh)
       THEN /\ pc' = "mfa"
            /\ UNCHANGED <<config, clock, calls, last, frame>>
       ELSE \E t1 \in Reads(clock) : \E t2 \in Reads(t1) : \E t3 \in Reads(t2) :
            LET r == credentials_are_valid(config, frame.mfa_profile,
                                           frame.role_based, t1, t2, t3)
            IN /\ config' = r.config
               /\ clock' = t3
               /\ last' = [op |-> "credentials_are_valid",
                           profile |-> frame.mfa_profile,
                           is_role_based |-> frame.role_based,
                           ret |-> r.ret, elapsed |-> r.elapsed,
                           profile_timestamp |-> r.profile_timestamp,
                           current_time |-> r.current_time,
                           path |-> r.path]
               /\ pc' = "mfa"
               /\ frame' = frame
               /\ calls' = IF r.ret
                           THEN Append(calls, connect_to_cluster(
                                       frame.aws_config_data.cluster_name,
                                       frame.aws_config_data.region,
                                       frame.mfa_profile))
                           ELSE calls
    /\ UNCHANGED <<disk, credentials_file, credentials_cache, runs, prev,
                   issued>>

\* MainCheck as it would be if the ConfigParser were written back to
\* ~/.aws/config after the freshness check
MainCheck_writing_back ==
    /\ pc = "check"
    /\ IF ~refresh_not_forced(frame.force_refresh)
       THEN /\ pc' = "mfa"
            /\ UNCHANGED <<disk, config, clock, calls, last, frame>>
       ELSE \E t1 \in Reads(clock) : \E t2 \in Reads(t1) : \E t3 \in Reads(t2) :
            LET r == credentials_are_valid(config, frame.mfa_profile,
                                           frame.role_based, t1, t2, t3)
            IN /\ config' = r.config
               /\ disk' = r.config
               /\ clock' = t3
               /\ last' = [op |-> "credentials_are_valid",
                           profile |-> frame.mfa_profile,
                           is_role_based |-> frame.role_based,
                           ret |-> r.ret, elapsed |-> r.elapsed,
                           profile_timestamp |-> r.profile_timestamp,
                           current_time |-> r.current_time,
                           path |-> r.path]
               /\ IF r.ret
                  THEN /\ calls' = Append(calls, connect_to_cluster(
                                       frame.aws_config_data.cluster_name,
                                       frame.aws_config_data.region,
                                       frame.mfa_profile))
                       /\ frame' = [frame EXCEPT !.exit = "used_existing"]
                       /\ pc' = "done"
                  ELSE /\ pc' = "mfa"
                       /\ UNCHANGED <<calls, frame>>
    /\ UNCHANGED <<credentials_file, credentials_cache, runs, prev, issued>>

\* if not force_refresh and credentials_are_valid(...): connect and return
MainCheck ==
    /\ pc = "check"
    /\ IF ~refresh_not_forced(frame.force_refresh)
       THEN /\ pc' = "mfa"
            /\ UNCHANGED <<config, clock, calls, last, frame>>
       ELSE \E t1 \in Reads(clock) : \E t2 \in Reads(t1) : \E t3 \in Reads(t2) :
            LET r == credentials_are_valid(config, frame.mfa_profile,
                                           frame.role_based, t1, t2, t3)
            IN /\ config' = r.config
               /\ clock' = t3
               /\ last' = [op |-> "credentials_are_valid",
                           profile |-> frame.mfa_profile,
                           is_role_based |-> frame.role_based,
                           ret |-> r.ret, elapsed |-> r.elapsed,
                           profile_timestamp |-> r.profile_timestamp,
                           current_time |-> r.current_time,
                           path |-> r.path]
               /\ IF r.ret
                  THEN /\ calls' = Append(calls, connect_to_cluster(
                                       frame.aws_config_data.cluster_name,
                                       frame.aws_config_data.region,
                                       frame.mfa_profile))
                       /\ frame' = [frame EXCEPT !.exit = "used_existing"]
                       /\ pc' = "done"
                  ELSE /\ pc' = "mfa"
                       /\ UNCHANGED <<calls, frame>>
    /\ UNCHANGED <<disk, credentials_file, credentials_cache, runs, prev,
                   issued>>

\* get_mfa_token as it would be if the except branch returned the error text
get_mfa_token_error_text(answer) ==
    CASE answer = "code" -> [ret |-> <<"123456">>, raised |-> ""]
      [] answer = "empty" -> [ret |-> <<>>, raised |-> ""]
      [] answer = "CalledProcessError" ->
             [ret |-> <<"CalledProcessError">>, raised |-> ""]
      [] answer = "FileNotFoundError" ->
             [ret |-> <<>>, raised |-> "FileNotFoundError"]

\* mfa.get_mfa_token: the `op item get <service_name> --otp` call.  answer
\* is "code" (a one-time code is printed), "empty" (nothing is printed),
\* "CalledProcessError" (non-zero exit, caught) or "FileNotFoundError"
\* (the CLI is missing, not caught).
get_mfa_token(answer) ==
    CASE answer = "code" -> [ret |-> <<"123456">>, raised |-> ""]
      [] answer = "empty" -> [ret |-> <<>>, raised |-> ""]
      [] answer = "CalledProcessError" -> [ret |-> <<>>, raised |-> ""]
      [] answer = "FileNotFoundError" ->
             [ret |-> <<>>, raised |-> "FileNotFoundError"]

MfaAnswers == {"code", "empty", "CalledProcessError", "FileNotFoundError"}

\* 3) the 1Password item name, 4) the MFA token
MainMfa ==
    /\ pc = "mfa"
    /\ \E answer \in MfaAnswers :
         LET profile_key == ProfileKey(frame.user_profile)
             mfa_service_name ==
                 IF frame.role_based /\ has_section(config, profile_key)
                    /\ has_option(config, profile_key, "source_profile")
                 THEN <<"Amazon">> \o Upper(config[profile_key]["source_profile"])
                 ELSE <<"Amazon">> \o Upper(Lower(SplitFirst(frame.environment)))
             r == get_mfa_token(answer)
         IN /\ calls' = Append(calls, [op |-> "op item get",
                                       service_name |-> mfa_service_name,
                                       answer |-> answer])
            /\ IF r.raised # ""
               THEN /\ frame' = [frame EXCEPT
                                   !.mfa_service_name = mfa_service_name,
                                   !.exit = r.raised]
                    /\ pc' = "crashed"
               ELSE IF r.ret = <<>>
               THEN /\ frame' = [frame EXCEPT
                                   !.mfa_service_name = mfa_service_name,
                                   !.exit = "no_mfa_token"]
                    /\ pc' = "done"
               ELSE /\ frame' = [frame EXCEPT
                                   !.mfa_service_name = mfa_service_name,
                                   !.mfa_token = r.ret]
                    /\ pc' = "exchange"
    /\ UNCHANGED <<disk, credentials_file, config, credentials_cache, clock,
                   runs, last, prev, issued>>

\* the answers of the base credential provider and of the exchange service
\* to one get_temporary_credentials call; the service is asked only when the
\* provider answered "ok"
ExchangeAnswers ==
    {[lookup |-> "ok", sts |-> "ok"],
     [lookup |-> "ok", sts |-> "ClientError"],
     [lookup |-> "ProfileNotFound", sts |-> "none"],
     [lookup |-> "NoCredentials", sts |-> "none"]}

\* the record kept of a get_temporary_credentials call: the profile and the
\* duration asked for, its result and the external calls it made
ExchangeRecord(profile, duration, cache, r) ==
    [op |-> "get_temporary_credentials", profile |-> profile,
     duration |-> duration,
     ret |-> r.ret, raised |-> r.raised, path |-> r.path,
     calls |-> r.calls, wrote |-> r.cache # cache]

\* MainExchange as it would be if a rejected exchange were attempted again
MainExchange_retrying ==
    /\ pc = "exchange"
    /\ \E now \in Reads(clock) : \E answer \in ExchangeAnswers :
         LET r == get_temporary_credentials(
                      config, credentials_cache, frame.user_profile,
                      frame.aws_config_data.mfa_serial, frame.mfa_token,
                      USER_MAX_DURATION, now, answer.lookup, answer.sts,
                      issued + 1)
         IN /\ credentials_cache' = r.cache
            /\ calls' = calls \o r.calls
            /\ clock' = now
            /\ issued' = IF r.raised = "" /\ ~Falsy(r.ret) /\ r.path # "cached"
                         THEN issued + 1 ELSE issued
            /\ last' = ExchangeRecord(frame.user_profile, USER_MAX_DURATION,
                                      credentials_cache, r)
            /\ IF r.raised = "ClientError" /\ Len(calls) < 3
               THEN /\ pc' = "exchange"
                    /\ UNCHANGED frame
               ELSE IF r.raised # ""
               THEN /\ frame' = [frame EXCEPT !.exit = r.raised]
                    /\ pc' = "crashed"
               ELSE IF Falsy(r.ret)
               THEN /\ frame' = [frame EXCEPT !.exit = "no_credentials"]
                    /\ pc' = "done"
               ELSE /\ frame' = [frame EXCEPT !.temp_creds = r.ret]
                    /\ pc' = "persist"
    /\ UNCHANGED <<disk, credentials_file, config, runs, prev>>

\* 5) get_temporary_credentials with the default duration
MainExchange ==
    /\ pc = "exchange"
    /\ \E now \in Reads(clock) : \E answer \in ExchangeAnswers :
         LET r == get_temporary_credentials(
                      config, credentials_cache, frame.user_profile,
                      frame.aws_config_data.mfa_serial, frame.mfa_token,
                      USER_MAX_DURATION, now, answer.lookup, answer.sts,
                      issued + 1)
         IN /\ credentials_cache' = r.cache
            /\ calls' = calls \o r.calls
            /\ clock' = now
            /\ issued' = IF r.raised = "" /\ ~Falsy(r.ret) /\ r.path # "cached"
                         THEN issued + 1 ELSE issued
            /\ last' = ExchangeRecord(frame.user_profile, USER_MAX_DURATION,
                                      credentials_cache, r)
            /\ IF r.raised # ""
               THEN /\ frame' = [frame EXCEPT !.exit = r.raised]
                    /\ pc' = "crashed"
               ELSE IF Falsy(r.ret)
               THEN /\ frame' = [frame EXCEPT !.exit = "no_credentials"]
                    /\ pc' = "done"
               ELSE /\ frame' = [frame EXCEPT !.temp_creds = r.ret]
                    /\ pc' = "persist"
    /\ UNCHANGED <<disk, credentials_file, config, runs, prev>>

\* configure_aws_credentials as it would be if the timestamp were written
\* under the bare profile name instead of the "profile <name>" section
configure_aws_credentials_bare_section(dsk, creds_file, profile, credentials, t) ==
    [disk |-> create_or_update_profile(dsk, profile, t),
     credentials_file |-> (profile :> credentials.AccessKeyId) @@ creds_file,
     call |-> [op |-> "aws configure set", profile |-> profile,
               AccessKeyId |-> credentials.AccessKeyId,
               profile_timestamp |-> IntToStr(t)]]

\* The four `aws configure set ... --profile <profile>` calls: the three
\* credential strings go to ~/.aws/credentials, profile_timestamp goes to
\* the profile's section of ~/.aws/config.  t is the reading of time.time().
configure_aws_credentials(dsk, creds_file, profile, credentials, t) ==
    [disk |-> create_or_update_profile(dsk, ProfileKey(profile), t),
     credentials_file |-> (profile :> credentials.AccessKeyId) @@ creds_file,
     call |-> [op |-> "aws configure set", profile |-> profile,
               AccessKeyId |-> credentials.AccessKeyId,
               profile_timestamp |-> IntToStr(t)]]

\* 6) configure_aws_credentials
MainPersist ==
    /\ pc = "persist"
    /\ \E t \in Reads(clock) :
         LET r == configure_aws_credentials(disk, credentials_file,
                                            frame.mfa_profile,
                                            frame.temp_creds, t)
         IN /\ disk' = r.disk
            /\ credentials_file' = r.credentials_file
            /\ calls' = Append(calls, r.call)
            /\ clock' = t
    /\ pc' = "connect"
    /\ UNCHANGED <<config, credentials_cache, runs, frame, last, prev, issued>>

\* 7) connect_to_cluster
MainConnect ==
    /\ pc = "connect"
    /\ calls' = Append(calls, connect_to_cluster(
                           frame.aws_config_data.cluster_name,
                           frame.aws_config_data.region, frame.mfa_profile))
    /\ frame' = [frame EXCEPT !.exit = "connected"]
    /\ pc' = "done"
    /\ UNCHANGED <<disk, credentials_file, config, credentials_cache, clock,
                   runs, last, prev, issued>>

NextMain ==
    \/ ClockAdvance
    \/ MainLoad
    \/ MainResolve
    \/ MainCheck
    \/ MainMfa
    \/ MainExchange
    \/ MainPersist
    \/ MainConnect

Spec == InitMain /\ [][NextMain]_vars

\* ------------------------------------------- the functions driven directly
\* One process that has loaded a registry and calls the functions of
\* aws_config.py and credentials_are_valid in any order.
ResolverProfiles == {<<"dev">>, <<"profile ", "dev">>, <<"dev", "2auth">>}
TimestampProfiles == {<<"dev", "2auth">>, <<"profile ", "dev", "2auth">>}

InitResolver ==
    /\ config \in InitDisks
    /\ disk = config
    /\ credentials_file = <<>>
    /\ credentials_cache = <<>>
    /\ clock = T0
    /\ pc = "resolver"
    /\ runs = 1
    /\ frame = NoFrame
    /\ calls = <<>>
    /\ last = NoCall
    /\ prev = NoCall
    /\ issued = 0

\* the readings <<t1, t2>> a read_profile_timestamp call takes when the
\* previous reading gave c: none when the timestamp is stored, one (in
\* create_or_update_profile) when the section is missing, two (the second
\* in the except branch) when the section has no timestamp
TimestampReads(cfg, profile, c) ==
    LET profile_key == ProfileKey(profile) IN
    IF has_option(cfg, profile_key, "profile_timestamp") THEN {<<c, c>>}
    ELSE IF ~has_section(cfg, profile_key) THEN {<<t, t>> : t \in Reads(c)}
    ELSE {tt \in Reads(c) \X ClockPoints : tt[2] \in Reads(tt[1])}

ApiReadProfileTimestamp ==
    /\ pc = "resolver"
    /\ \E profile \in TimestampProfiles :
       \E tt \in TimestampReads(config, profile, clock) :
         LET t1 == tt[1]
             t2 == tt[2]
             r == read_profile_timestamp(config, profile, t1, t2)
         IN /\ config' = r.config
            /\ clock' = CASE r.path = "read" -> clock
                          [] r.path = "created_section" -> t1
                          [] r.path = "no_option" -> t2
            /\ last' = [op |-> "read_profile_timestamp", profile |-> profile,
                        ret |-> r.ret, path |-> r.path,
                        wrote |-> r.config # config]
    /\ prev' = IF last.op = "read_profile_timestamp" THEN last ELSE NoCall
    /\ UNCHANGED <<disk, credentials_file, credentials_cache, pc, runs,
                   frame, calls, issued>>

ApiCredentialsAreValid ==
    /\ pc = "resolver"
    /\ \E profile \in TimestampProfiles, is_role_based \in BOOLEAN :
       \E tt \in TimestampReads(config, profile, clock) :
       \E t3 \in Reads(tt[2]) :
         LET t1 == tt[1]
             t2 == tt[2]
             r == credentials_are_valid(config, profile, is_role_based,
                                        t1, t2, t3)
         IN /\ config' = r.config
            /\ clock' = t3
            /\ last' = [op |-> "credentials_are_valid", profile |-> profile,
                        is_role_based |-> is_role_based,
                        ret |-> r.ret, elapsed |-> r.elapsed,
                        profile_timestamp |-> r.profile_timestamp,
                        current_time |-> r.current_time, path |-> r.path]
    /\ prev' = NoCall
    /\ UNCHANGED <<disk, credentials_file, credentials_cache, pc, runs,
                   frame, calls, issued>>

ApiIsRoleProfile ==
    /\ pc = "resolver"
    /\ \E profile \in ResolverProfiles :
         last' = [op |-> "is_role_profile", profile |-> profile,
                  ret |-> is_role_profile(config, profile)]
    /\ prev' = NoCall
    /\ UNCHANGED <<disk, credentials_file, config, credentials_cache, clock,
                   pc, runs, frame, calls, issued>>

ApiReadAwsConfig ==
    /\ pc = "resolver"
    /\ \E profile \in ResolverProfiles :
         last' = [op |-> "read_aws_config", profile |-> profile,
                  ret |-> read_aws_config(config, profile)]
    /\ prev' = NoCall
    /\ UNCHANGED <<disk, credentials_file, config, credentials_cache, clock,
                   pc, runs, frame, calls, issued>>

NextResolver ==
    \/ ClockAdvance
    \/ ApiReadProfileTimestamp
    \/ ApiCredentialsAreValid
    \/ ApiIsRoleProfile
    \/ ApiReadAwsConfig

SpecResolver == InitResolver /\ [][NextResolver]_vars

\* One process that has loaded a registry and calls
\* get_temporary_credentials any number of times with any arguments.
BrokerProfiles == {<<"dev">>, <<"dev", "2auth">>}
BrokerDurations == {ROLE_MAX_DURATION - 1, ROLE_MAX_DURATION,
                    ROLE_MAX_DURATION + 1}
BrokerTokens == {<<"123456">>, <<"654321">>}

\* the registries explored: the base profile is a user profile, a role
\* profile without source_profile or a role profile with it; the derived
\* profile has no section
BrokerConfigs ==
    {ProfileKey(<<"dev">>) :> Section(opts \cup {"cluster_name", "mfa_serial"}) :
        opts \in {{}, {"role_arn"}, {"role_arn", "source_profile"}}}

InitBroker ==
    /\ config \in BrokerConfigs
    /\ disk = config
    /\ credentials_file = <<>>
    /\ credentials_cache = <<>>
    /\ clock = T0
    /\ pc = "broker"
    /\ runs = 1
    /\ frame = NoFrame
    /\ calls = <<>>
    /\ last = NoCall
    /\ prev = NoCall
    /\ issued = 0

\* The exchange service issues at most MaxIssued bundles, then rejects.
\* datetime.now() reads the clock where ClockAdvance has left it.
ApiGetTemporaryCredentials ==
    /\ pc = "broker"
    /\ \E profile \in BrokerProfiles, mfa_token \in BrokerTokens,
          duration \in BrokerDurations :
       \E answer \in {a \in ExchangeAnswers :
                         a.sts = "ok" => issued < MaxIssued} :
         LET now == clock
             r == get_temporary_credentials(
                      config, credentials_cache, profile,
                      OptionValue("mfa_serial"), mfa_token, duration, now,
                      answer.lookup, answer.sts, issued + 1)
         IN /\ credentials_cache' = r.cache
            /\ clock' = now
            /\ issued' = IF r.raised = "" /\ ~Falsy(r.ret) /\ r.path # "cached"
                         THEN issued + 1 ELSE issued
            /\ last' = ExchangeRecord(profile, duration,
                                      credentials_cache, r)
    /\ UNCHANGED <<disk, credentials_file, config, pc, runs, frame, calls,
                   prev>>

NextBroker ==
    \/ ClockAdvance
    \/ ApiGetTemporaryCredentials

SpecBroker == InitBroker /\ [][NextBroker]_vars

\* ----------------------------------------------------------------- claims
\* the section of the registry that holds a profile
SectionOf(profile) ==
    IF profile[1] = "profile " THEN profile ELSE <<"profile ">> \o profile

\* the external calls of the current run made to one collaborator
CallsTo(ops) == {i \in DOMAIN calls : calls[i].op \in ops}

ExchangeOps == {"boto3.Session", "assume_role", "get_session_token"}
SinkOps == {"aws configure set", "update-kubeconfig"}

\* C1: without the force flag, credentials_are_valid returns true exactly
\* when the clock reading minus the value returned by read_profile_timestamp
\* is below 3600 for a role-based profile and below 129600 for a user
\* profile; a timestamp that was already stored is returned as stored.
C1_FreshIffWithinWindow ==
    last.op = "credentials_are_valid" =>
        LET window == IF last.is_role_based THEN 3600 ELSE 129600
            key == SectionOf(last.profile)
        IN /\ ~frame.force_refresh
           /\ last.ret <=>
                  (last.current_time - last.profile_timestamp < window)
           /\ last.path = "read" =>
                  IntToStr(last.profile_timestamp)
                      = config[key]["profile_timestamp"]

\* a role-based check exactly at the edge of the window: not fresh
C1_Witness ==
    /\ last.op = "credentials_are_valid"
    /\ last.is_role_based
    /\ last.path = "read"
    /\ last.current_time - last.profile_timestamp = 3600
    /\ last.ret = FALSE

\* C2: a run with --force-refresh whose base profile resolved never checks
\* freshness and never uses the existing credentials; its first external
\* call is the MFA retrieval, and once a code is returned the next step is
\* the exchange.
C2_ForceAlwaysRefreshes ==
    (pc \notin {"idle", "resolve"} /\ frame.force_refresh
     /\ frame.exit # "config_not_found") =>
        /\ frame.exit # "used_existing"
        /\ last.op # "credentials_are_valid"
        /\ config = disk \/ CallsTo({"aws configure set"}) # {}
        /\ pc \in {"check", "mfa"}
           \/ (calls # <<>> /\ calls[1].op = "op item get")
        /\ (calls # <<>> /\ calls[1].answer = "code") =>
               \/ pc = "exchange"
               \/ last.op = "get_temporary_credentials"

\* a forced run went through the exchange although the stored timestamp
\* was still fresh
C2_Witness ==
    /\ frame.force_refresh
    /\ pc = "persist"
    /\ has_option(config, SectionOf(frame.mfa_profile), "profile_timestamp")
    /\ clock - StrToInt(config[SectionOf(frame.mfa_profile)]["profile_timestamp"])
           < 3600

\* C3: when the derived profile has no stored timestamp (no section, or a
\* section without the field), the freshness check leaves the field set to
\* a clock reading and read_profile_timestamp returned that same value; the
\* check is true with an elapsed time of zero, up to the advance of the
\* clock during the call, and the run uses the existing credentials without
\* MFA retrieval or exchange.
C3_MissingTimestampIsNow ==
    (last.op = "credentials_are_valid"
     /\ last.path \in {"created_section", "no_option"}) =>
        LET key == SectionOf(last.profile) IN
        /\ key \in DOMAIN config
        /\ "profile_timestamp" \in DOMAIN config[key]
        /\ config[key]["profile_timestamp"] = IntToStr(last.profile_timestamp)
        /\ last.ret = TRUE
        /\ last.elapsed >= 0 /\ last.elapsed <= 2 * MaxTick
        /\ frame.exit = "used_existing"
        /\ CallsTo({"op item get"} \cup ExchangeOps) = {}

\* C4: of two read_profile_timestamp calls in immediate succession for a
\* profile that had no timestamp, the second returns what the first
\* returned, which is the stored field, and the second does not write.
C4_SecondReadSameValue ==
    (last.op = "read_profile_timestamp" /\ prev.op = "read_profile_timestamp"
     /\ SectionOf(last.profile) = SectionOf(prev.profile)
     /\ prev.path \in {"created_section", "no_option"}) =>
        /\ last.ret = prev.ret
        /\ config[SectionOf(last.profile)]["profile_timestamp"]
               = IntToStr(prev.ret)
        /\ ~last.wrote

\* C5: is_role_profile, given a bare or a prefixed name, is true exactly when
\* the profile's section exists and has a role_arn field, and a call of it
\* leaves the registry as it was.
C5_RoleIffRoleArn ==
    /\ [](last.op = "is_role_profile" =>
             (last.ret <=>
                 /\ SectionOf(last.profile) \in DOMAIN config
                 /\ "role_arn" \in DOMAIN config[SectionOf(last.profile)]))
    /\ [][last'.op = "is_role_profile" => config' = config]_vars

\* a prefixed name classified as Role
C5_Witness ==
    /\ last.op = "is_role_profile"
    /\ last.profile = <<"profile ", "dev">>
    /\ last.ret = TRUE

\* C6: the assume-role request carries 3600 when the requested duration is
\* above 3600 and the requested duration otherwise; the session-token
\* request carries the requested duration; the request made matches the
\* kind of the profile.
C6_DurationPassed ==
    last.op = "get_temporary_credentials" =>
        \A i \in DOMAIN last.calls :
            /\ last.calls[i].op = "assume_role" =>
                   /\ last.calls[i].DurationSeconds =
                          IF last.duration > 3600 THEN 3600 ELSE last.duration
                   /\ "role_arn" \in DOMAIN config[SectionOf(last.profile)]
            /\ last.calls[i].op = "get_session_token" =>
                   /\ last.calls[i].DurationSeconds = last.duration
                   /\ ~(/\ SectionOf(last.profile) \in DOMAIN config
                        /\ "role_arn" \in DOMAIN config[SectionOf(last.profile)])

\* a role exchange asked for 3601 seconds and requested 3600
C6_Witness ==
    /\ last.op = "get_temporary_credentials"
    /\ last.duration = 3601
    /\ Len(last.calls) = 2
    /\ last.calls[2].op = "assume_role"
    /\ last.calls[2].DurationSeconds = 3600

\* C7: a get_temporary_credentials call for a profile whose cache entry
\* expires after the reading of the clock returns the cached bundle, makes
\* no external call and leaves the cache alone; a call that finds no entry,
\* or one whose expiration is not after the reading, is not served from the
\* cache.  (A step that leaves the clock where it was is such a call.)
C7_CacheServesUntilExpiry ==
    [][(last'.op = "get_temporary_credentials" /\ clock' = clock) =>
          LET p == last'.profile IN
          IF p \in DOMAIN credentials_cache /\ clock < credentials_cache[p][2]
          THEN /\ last'.path = "cached"
               /\ last'.raised = ""
               /\ last'.ret = credentials_cache[p][1]
               /\ last'.calls = <<>>
               /\ ~last'.wrote
               /\ credentials_cache' = credentials_cache
          ELSE /\ last'.path # "cached"
               /\ last'.calls # <<>> \/ last'.raised = "NoOptionError"]_vars

\* a call one second before the expiration, served from the cache
C7_Witness ==
    /\ last.op = "get_temporary_credentials"
    /\ last.path = "cached"
    /\ last.calls = <<>>
    /\ clock + 1 = credentials_cache[last.profile][2]

\* C8: when the base credential provider does not find the profile, for
\* either kind, get_temporary_credentials returns the empty result without
\* raising and without asking the exchange service, and the run ends with
\* no persistence and no cluster-config call.
C8_LookupFailureReturnsEmpty ==
    (last.op = "get_temporary_credentials" /\ Len(last.calls) = 1
     /\ last.raised # "AttributeError") =>
        /\ last.raised = ""
        /\ Falsy(last.ret)
        /\ pc = "done"
        /\ frame.exit = "no_credentials"
        /\ CallsTo({"assume_role", "get_session_token"} \cup SinkOps) = {}

\* C9: a run whose MFA retrieval gave no code ends there: the MFA call is
\* its only external call, get_temporary_credentials is not called and the
\* cache stays empty.
C9_NoMfaNoExchange ==
    (calls # <<>> /\ calls[1].op = "op item get" /\ calls[1].answer # "code")
        =>
        /\ pc \in {"done", "crashed"}
        /\ frame.exit \in {"no_mfa_token", "FileNotFoundError"}
        /\ Len(calls) = 1
        /\ last.op # "get_temporary_credentials"
        /\ credentials_cache = <<>>

\* the secret manager exited with an error and the run returned
C9_Witness ==
    /\ pc = "done"
    /\ frame.exit = "no_mfa_token"
    /\ calls[1].answer = "CalledProcessError"

\* C10: a run whose base profile has no section or no cluster_name ends
\* right after read_aws_config: no external call, the registry as loaded,
\* the cache empty.
C10_ConfigNotFoundNoEffects ==
    (pc \notin {"idle", "resolve"}
     /\ ~(/\ SectionOf(frame.user_profile) \in DOMAIN config
          /\ "cluster_name" \in DOMAIN config[SectionOf(frame.user_profile)]))
        =>
        /\ pc = "done"
        /\ frame.exit = "config_not_found"
        /\ calls = <<>>
        /\ config = disk
        /\ credentials_cache = <<>>
        /\ last = NoCall

\* the section exists but has no cluster_name
C10_Witness ==
    /\ pc = "done"
    /\ frame.exit = "config_not_found"
    /\ SectionOf(frame.user_profile) \in DOMAIN config

\* C11: when the exchange service was asked and rejected the request, the
\* exception leaves get_temporary_credentials and main: the run is over, the
\* service was asked once, the cache is as it was (empty), and neither the
\* persistence sink nor the cluster-config updater was called.
C11_ExchangeFailureEndsRun ==
    (last.op = "get_temporary_credentials" /\ Len(last.calls) = 2
     /\ Falsy(last.ret)) =>
        /\ last.raised = "ClientError"
        /\ pc = "crashed"
        /\ frame.exit = "ClientError"
        /\ Cardinality(CallsTo({"assume_role", "get_session_token"})) = 1
        /\ calls[Len(calls)].op \in {"assume_role", "get_session_token"}
        /\ ~last.wrote
        /\ credentials_cache = <<>>
        /\ Falsy(frame.temp_creds)
        /\ CallsTo(SinkOps) = {}

\* the assume-role request of a role-based run was rejected
C11_Witness ==
    /\ pc = "crashed"
    /\ frame.exit = "ClientError"
    /\ last.path = "role"
    /\ calls[Len(calls)].op = "assume_role"

\* C12: in a run the cluster-config updater is called at most once, as the
\* last external call, for the profile <base>2auth; and either it is the
\* run's only external call, made after a non-forced freshness check that
\* returned true, or it follows, in this order, the MFA retrieval that gave
\* a code, the exchange that returned a bundle and the persistence of that
\* bundle under the same profile.
C12_ConnectOnceAndLast ==
    LET K == CallsTo({"update-kubeconfig"})
        n == Len(calls)
    IN /\ Cardinality(K) <= 1
       /\ K # {} =>
            /\ K = {n}
            /\ calls[n].profile
                   = Lower(SplitFirst(frame.environment)) \o <<"2auth">>
            /\ \/ /\ n = 1
                  /\ ~frame.force_refresh
                  /\ last.op = "credentials_are_valid"
                  /\ last.ret = TRUE
               \/ /\ n = 5
                  /\ calls[1].op = "op item get"
                  /\ calls[1].answer = "code"
                  /\ calls[2].op = "boto3.Session"
                  /\ calls[3].op \in {"assume_role", "get_session_token"}
                  /\ calls[4].op = "aws configure set"
                  /\ calls[4].profile = calls[n].profile
                  /\ last.op = "get_temporary_credentials"
                  /\ last.raised = ""
                  /\ ~Falsy(last.ret)
                  /\ calls[4].AccessKeyId = last.ret.AccessKeyId

\* a non-forced run whose check returned false went through MFA retrieval,
\* exchange and persistence and then updated the cluster config
C12_Witness ==
    /\ pc = "done"
    /\ frame.exit = "connected"
    /\ ~frame.force_refresh
    /\ Len(calls) = 5
    /\ calls[5].op = "update-kubeconfig"

\* C13: after a credentials_are_valid call the profile has a stored
\* timestamp, and while it stays as stored a check at any later reading of
\* the clock returns true when the reading minus the stored value is below
\* the window of the kind, and returns false when the call just made
\* returned false; the clock never goes back, and a check that follows a
\* check of the same profile and kind that returned false returns false.
C13_StaleStaysStale ==
    /\ [](last.op = "credentials_are_valid" =>
             LET key == SectionOf(last.profile)
                 window == IF last.is_role_based THEN 3600 ELSE 129600
             IN /\ key \in DOMAIN config
                /\ "profile_timestamp" \in DOMAIN config[key]
                /\ \A t \in {c \in ClockPoints : c >= clock} :
                     LET stored == StrToInt(config[key]["profile_timestamp"])
                         later == credentials_are_valid(
                                      config, last.profile,
                                      last.is_role_based, t, t, t)
                     IN /\ later.config = config
                        /\ (t - stored < window) => later.ret
                        /\ ~last.ret => ~later.ret)
    /\ [][/\ clock' >= clock
          /\ (/\ last.op = "credentials_are_valid"
               /\ last'.op = "credentials_are_valid"
               /\ SectionOf(last'.profile) = SectionOf(last.profile)
               /\ last'.is_role_based = last.is_role_based
               /\ ~last.ret) => ~last'.ret]_vars

\* a role-based check one second past the edge of the window: still false
C13_Witness ==
    /\ last.op = "credentials_are_valid"
    /\ last.is_role_based
    /\ last.path = "read"
    /\ last.elapsed = 3601
    /\ last.ret = FALSE

\* C14: in a run, the kind main derived for the base profile is the kind
\* its section has (Role exactly when it holds a role_arn); the freshness
\* check of the run was made with that kind; and a request to the exchange
\* service is an assume-role request for 3600 seconds when the kind is Role
\* and a session-token request for 129600 seconds when it is User, which is
\* the window of that kind.
C14_DurationIsWindow ==
    pc \in {"check", "mfa", "exchange", "persist", "connect", "done",
            "crashed"} /\ frame.exit # "config_not_found" =>
        LET key == SectionOf(frame.user_profile)
            kind_is_role == key \in DOMAIN config
                            /\ "role_arn" \in DOMAIN config[key]
            window == IF frame.role_based THEN 3600 ELSE 129600
        IN /\ frame.role_based = kind_is_role
           /\ last.op = "credentials_are_valid" =>
                  /\ last.is_role_based = frame.role_based
                  /\ last.ret <=> (last.elapsed < window)
           /\ \A i \in CallsTo({"assume_role", "get_session_token"}) :
                  /\ calls[i].DurationSeconds = window
                  /\ (calls[i].op = "assume_role") = frame.role_based
                  /\ last.op = "get_temporary_credentials"
                  /\ last.path = IF frame.role_based THEN "role" ELSE "user"

\* a non-forced run for a user profile found the timestamp 129600 seconds
\* old and asked for a session token of 129600 seconds
C14_Witness ==
    /\ ~frame.force_refresh
    /\ ~frame.role_based
    /\ Len(calls) >= 3
    /\ calls[3].op = "get_session_token"
    /\ calls[3].DurationSeconds = 129600

\* C15 as stated: the name passed to the MFA token source is "Amazon"
\* followed by the uppercased source-profile name whenever the base profile
\* is Role-classified, and by the uppercased base profile name when it is
\* User-classified.
C15_ServiceNameByKind ==
    \A i \in CallsTo({"op item get"}) :
        LET key == SectionOf(frame.user_profile)
            name == calls[i].service_name
        IN IF frame.role_based
           THEN /\ "source_profile" \in DOMAIN config[key]
                /\ config[key]["source_profile"] = <<"base">>
                /\ name = <<"Amazon", "BASE">>
           ELSE name = <<"Amazon", "DEV">>

\* C15: the base profile name is the part of the environment argument
\* before the first "-", lowercased; the name passed to the MFA token source
\* is "Amazon" followed by the uppercased source_profile field when the
\* base profile is Role-classified and its section has that field, and
\* "Amazon" followed by the uppercased base profile name otherwise (User
\* kind, or Role kind without a source_profile field).
C15_ServiceNameBySourceField ==
    \A i \in CallsTo({"op item get"}) :
        LET key == SectionOf(frame.user_profile)
            name == calls[i].service_name
        IN /\ frame.environment \in {<<"dev">>, <<"Dev", "-", "east">>}
           /\ frame.user_profile = <<"dev">>
           /\ name = frame.mfa_service_name
           /\ IF frame.role_based /\ "source_profile" \in DOMAIN config[key]
              THEN /\ config[key]["source_profile"] = <<"base">>
                   /\ name = <<"Amazon", "BASE">>
              ELSE name = <<"Amazon", "DEV">>

\* the environment Dev-east with a role profile whose source is "base"
C15_Witness ==
    /\ frame.environment = <<"Dev", "-", "east">>
    /\ frame.role_based
    /\ calls # <<>>
    /\ calls[1].op = "op item get"
    /\ calls[1].service_name = <<"Amazon", "BASE">>

\* C16: in a run each external collaborator (MFA token source, base
\* credential provider, exchange service, persistence sink, cluster-config
\* updater) is called at most once; the cache is empty until the run's one
\* get_temporary_credentials call, which is therefore never served from it.
C16_EachCollaboratorOnce ==
    /\ \A ops \in {{"op item get"}, {"boto3.Session"},
                    {"assume_role", "get_session_token"},
                    {"aws configure set"}, {"update-kubeconfig"}} :
           Cardinality(CallsTo(ops)) <= 1
    /\ last.op # "get_temporary_credentials" => credentials_cache = <<>>
    /\ last.op = "get_temporary_credentials" =>
           /\ last.path # "cached"
           /\ DOMAIN credentials_cache \subseteq {last.profile}
           /\ last.calls # <<>> \/ last.raised = "NoOptionError"

\* a second invocation exchanged again although the first one had obtained
\* a bundle for the same profile
C16_Witness ==
    /\ runs = 2
    /\ issued = 2
    /\ last.op = "get_temporary_credentials"
    /\ last.path = "user"
    /\ Len(last.calls) = 2
    /\ frame.exit = "connected"

\* C17: a get_temporary_credentials call that obtained a bundle from the
\* exchange service leaves the cache entry of its profile equal to that
\* bundle paired with the bundle's expiration, whatever the entry was
\* before, and every other entry as it was; a call served from the cache, a
\* call whose base credentials were not found and a call the exchange
\* service rejected leave the whole cache as it was.  (A step that leaves
\* the clock where it was is such a call.)
C17_CacheWrittenOnlyOnSuccess ==
    [][(last'.op = "get_temporary_credentials" /\ clock' = clock) =>
          LET p == last'.profile IN
          IF last'.raised = "" /\ ~Falsy(last'.ret) /\ last'.path # "cached"
          THEN /\ DOMAIN credentials_cache' = DOMAIN credentials_cache \cup {p}
               /\ credentials_cache'[p] = <<last'.ret, last'.ret.Expiration>>
               /\ last'.ret.AccessKeyId = issued'
               /\ \A q \in DOMAIN credentials_cache \ {p} :
                      credentials_cache'[q] = credentials_cache[q]
          ELSE /\ credentials_cache' = credentials_cache
               /\ ~last'.wrote]_vars

\* the expired entry of a profile was replaced by a second bundle
C17_Witness ==
    /\ last.op = "get_temporary_credentials"
    /\ last.path # "cached"
    /\ last.wrote
    /\ DOMAIN credentials_cache = {last.profile}
    /\ issued = 2
    /\ credentials_cache[last.profile][1].AccessKeyId = 2

\* a registry with the profile_timestamp field of one section left out
WithoutTimestamp(cfg, key) ==
    [k \in DOMAIN cfg |->
        IF k = key
        THEN [o \in DOMAIN cfg[k] \ {"profile_timestamp"} |-> cfg[k][o]]
        ELSE cfg[k]]

\* C18: within a run the ConfigParser changes only in the freshness check
\* of a non-forced run, which sets the profile_timestamp of <base>2auth in
\* it when that was missing and leaves ~/.aws/config alone; ~/.aws/config
\* changes only in configure_aws_credentials, and only in the
\* profile_timestamp of <base>2auth; so a run that used the existing
\* credentials or ended early leaves the file as it was, and in a forced
\* run the ConfigParser stays as loaded.
C18_DiskWrittenOnlyByPersist ==
    [][LET key == SectionOf(frame.mfa_profile) IN
       /\ (config' # config /\ runs' = runs) =>
              /\ pc = "check" /\ ~frame.force_refresh
              /\ last'.op = "credentials_are_valid"
              /\ last'.path \in {"created_section", "no_option"}
              /\ ~has_option(config, key, "profile_timestamp")
              /\ has_option(config', key, "profile_timestamp")
              /\ DOMAIN config' = DOMAIN config \cup {key}
              /\ WithoutTimestamp(config', key)
                     = WithoutTimestamp(config @@ (key :> <<>>), key)
              /\ disk' = disk
       /\ disk' # disk =>
              /\ pc = "persist" /\ pc' = "connect"
              /\ calls'[Len(calls')].op = "aws configure set"
              /\ config' = config
              /\ has_option(disk', key, "profile_timestamp")
              /\ WithoutTimestamp(disk', key)
                     = WithoutTimestamp(disk @@ (key :> <<>>), key)
       /\ (runs' = runs /\ frame.force_refresh) => config' = config
       /\ (runs' # runs) => (config' = disk /\ disk' = disk)]_vars

\* a run used the existing credentials after initialising the timestamp in
\* its ConfigParser; the file still has no section for the derived profile
C18_Witness ==
    /\ pc = "done"
    /\ frame.exit = "used_existing"
    /\ has_option(config, SectionOf(frame.mfa_profile), "profile_timestamp")
    /\ ~has_section(disk, SectionOf(frame.mfa_profile))

\* the run is for an environment whose derived profile an earlier run, or
\* this one, has persisted credentials for
Persisted == frame.mfa_profile \in DOMAIN credentials_file

\* the window of the base profile's kind, as ~/.aws/config has it
WindowOnDisk ==
    IF "role_arn" \in DOMAIN disk[SectionOf(frame.user_profile)]
    THEN 3600 ELSE 129600

\* the non-forced run of a persisted profile has ended without using the
\* existing credentials
EndedStale ==
    /\ Persisted
    /\ ~frame.force_refresh
    /\ pc \in {"done", "crashed"}
    /\ frame.exit # "used_existing"

\* in a non-forced run of a persisted profile the freshness check read the
\* time t that configure_aws_credentials wrote under "profile <base>2auth";
\* with a clock reading less than the window after t the run uses the
\* existing credentials with no MFA retrieval, exchange or persistence, and
\* otherwise it goes on to the MFA retrieval
FreshUntilWindow ==
    LET key == SectionOf(frame.mfa_profile) IN
    Persisted =>
        /\ frame.mfa_profile = frame.user_profile \o <<"2auth">>
        /\ has_option(disk, key, "profile_timestamp")
        /\ (~frame.force_refresh /\ last.op = "credentials_are_valid") =>
               LET t == StrToInt(disk[key]["profile_timestamp"])
                   elapsed == last.current_time - t
               IN /\ last.profile = frame.mfa_profile
                  /\ last.path = "read"
                  /\ last.profile_timestamp = t
                  /\ last.is_role_based = (WindowOnDisk = 3600)
                  /\ (elapsed < WindowOnDisk) =>
                         /\ pc = "done"
                         /\ frame.exit = "used_existing"
                         /\ CallsTo({"op item get", "aws configure set"}
                                    \cup ExchangeOps) = {}
                  /\ (elapsed >= WindowOnDisk) =>
                         \/ pc = "mfa" /\ calls = <<>>
                         \/ Len(calls) = 1 /\ calls[1].op = "op item get"

\* C19 as stated: across invocations for one environment, after credentials
\* were persisted at time t a non-forced run at a reading less than the
\* window after t does no MFA retrieval and no exchange, and a non-forced run
\* at a reading the window or more after t does the MFA retrieval and
\* attempts an exchange.
C19_StaleRunExchanges ==
    /\ FreshUntilWindow
    /\ EndedStale =>
           /\ calls # <<>>
           /\ calls[1].op = "op item get"
           /\ last.op = "get_temporary_credentials"
           /\ Len(last.calls) >= 1

\* C19: as above, but the stale run attempts an exchange only when its MFA
\* retrieval returned a code; when it did not, the MFA retrieval is the
\* run's only external call.
C19_StaleRunExchangesGivenCode ==
    /\ FreshUntilWindow
    /\ EndedStale =>
           /\ calls # <<>>
           /\ calls[1].op = "op item get"
           /\ IF calls[1].answer = "code"
              THEN /\ last.op = "get_temporary_credentials"
                   /\ Len(last.calls) >= 1
              ELSE /\ Len(calls) = 1
                   /\ last.op = "credentials_are_valid"

\* the second invocation for a role profile, exactly 3600 seconds after the
\* first persisted credentials, has retrieved a code and attempted the
\* exchange
C19_Witness ==
    /\ runs = 2
    /\ ~frame.force_refresh
    /\ frame.role_based
    /\ Persisted
    /\ credentials_file[frame.mfa_profile] = 1
    /\ last.op = "get_temporary_credentials"
    /\ Len(last.calls) = 2
    /\ clock - StrToInt(disk[SectionOf(frame.mfa_profile)]["profile_timestamp"])
           = 3600

====
